---- MODULE Spec2Model ----
(***************************************************************************)
(* Model of scripts/plugin-config-api.py: the scheduler plugin             *)
(* configuration service.  The stored document is the parsed content of    *)
(* the ConfigMap key config.yaml; every HTTP request is a process that     *)
(* walks through validate, load+mutate, backup, save and restart, and the  *)
(* steps of different requests interleave (the module holds no lock).      *)
(***************************************************************************)
EXTENDS Integers, Sequences, FiniteSets, TLC

\* ------------------------------------------------------------------ bounds
NumRequests == 2        \* request slots served concurrently
MaxOps == 3             \* requests one client sends in one behaviour
MaxRacingOps == 2       \* requests started in a behaviour with concurrent requests
MaxFailures == 1        \* collaborator calls (kubectl) that fail in one behaviour

\* ---------------------------------------------------------------- catalogs
SUPPORTED_PLUGINS ==
  << "Rescheduler", "Coscheduling", "CapacityScheduling",
     "NodeResourceTopologyMatch", "NodeResourcesAllocatable",
     "TargetLoadPacking", "LoadVariationRiskBalancing",
     "PreemptionToleration", "PodState", "QoS", "SySched", "Trimaran" >>

PLUGIN_PHASES ==
  << "filter", "score", "reserve", "preBind", "preFilter", "postFilter",
     "permit", "bind", "postBind" >>

SCHEDULER_DEPLOYMENT == "rescheduler-scheduler"

\* ------------------------------------------------------ inputs of requests
Requests == 1..NumRequests
PluginInputs == {"QoS", "NotAPlugin"}
PhaseListInputs ==
  { <<"filter">>, <<"filter", "score">>, <<"filter", "notAPhase">> }
BodyInputs ==
  { << >>,
    << [key |-> "maxScore", value |-> 100] >>,
    << [key |-> "maxScore", value |-> 50], [key |-> "weight", value |-> 100] >> }

\* inputs of the requests that run concurrently
RacingPlugins == {"QoS"}
RacingPhaseLists == { <<"filter">> }
RacingBodies == { << [key |-> "maxScore", value |-> 100] >> }

\* ------------------------------------------------------- python list ops
\* x in s
In(x, s) == \E i \in DOMAIN s : s[i] = x

\* mutant: the list is replaced by one holding the new item only
ListAppendReplacing(s, x) == << x >>

\* s.append(x)
ListAppend(s, x) == Append(s, x)

\* index of the first occurrence of x in s (x is in s)
FirstIndex(s, x) == CHOOSE i \in DOMAIN s : s[i] = x /\ \A j \in 1..(i-1) : s[j] # x

\* s.remove(x): drops the first occurrence only
ListRemove(s, x) ==
  LET k == FirstIndex(s, x)
  IN  [i \in 1..(Len(s) - 1) |-> IF i < k THEN s[i] ELSE s[i + 1]]

\* d[k] = v on a dict
\* mutant: the assignment replaces the whole dict by the one item
DictSetReplacing(d, k, v) == [x \in {k} |-> v]

DictSet(d, k, v) == [x \in (DOMAIN d) \cup {k} |-> IF x = k THEN v ELSE d[x]]

EmptyDict == [x \in {} |-> 0]

\* --------------------------------------------------------------- documents
\* a phase entry of profile['plugins']; a missing key has its flag FALSE
PhaseConfig(hasE, e, hasD, d) ==
  [hasEnabled |-> hasE, enabled |-> e, hasDisabled |-> hasD, disabled |-> d]

\* an entry of profile['pluginConfig']
PluginArgs(n, hasA, a) == [name |-> n, hasArgs |-> hasA, args |-> a]

Profile(hasP, p, hasPC, pc) ==
  [schedulerName |-> SCHEDULER_DEPLOYMENT,
   hasPlugins |-> hasP, plugins |-> p,
   hasPluginConfig |-> hasPC, pluginConfig |-> pc]

Document(hasProfiles, profiles) ==
  [hasProfiles |-> hasProfiles, profiles |-> profiles]

\* documents the ConfigMap may hold when the service starts
\* no 'profiles' key
DocNoProfiles == Document(FALSE, << >>)
\* 'profiles' is an empty list
DocEmptyProfiles == Document(TRUE, << >>)
\* a profile with neither 'plugins' nor 'pluginConfig'
DocBareProfile == Document(TRUE, << Profile(FALSE, EmptyDict, FALSE, << >>) >>)
\* an ordinary document: QoS disabled in filter, no entry for score
DocOrdinary ==
  Document(TRUE, << Profile(TRUE,
      [ph \in {"filter"} |-> PhaseConfig(TRUE, <<"Coscheduling">>, TRUE, <<"QoS">>)],
      TRUE, << PluginArgs("Coscheduling", TRUE, [k \in {"maxScore"} |-> 100]) >>) >>)
\* phase entries without 'enabled'/'disabled', a pluginConfig entry without 'args'
DocMissingKeys ==
  Document(TRUE, << Profile(TRUE,
      [ph \in {"filter", "score"} |->
          IF ph = "filter" THEN PhaseConfig(FALSE, << >>, FALSE, << >>)
          ELSE PhaseConfig(TRUE, <<"QoS">>, FALSE, << >>)],
      TRUE, << PluginArgs("QoS", FALSE, EmptyDict) >>) >>)
\* lists that name a plugin twice
DocRepeatedNames ==
  Document(TRUE, << Profile(TRUE,
      [ph \in {"filter", "score"} |->
          IF ph = "filter" THEN PhaseConfig(TRUE, << >>, TRUE, <<"QoS", "QoS">>)
          ELSE PhaseConfig(TRUE, <<"QoS", "QoS">>, TRUE, << >>)],
      FALSE, << >>) >>)

InitDocs ==
  { DocNoProfiles, DocEmptyProfiles, DocBareProfile, DocOrdinary,
    DocMissingKeys, DocRepeatedNames }

\* the starting documents of the runs with concurrent requests
RacingDocs == { DocOrdinary, DocRepeatedNames }

\* ----------------------------------------------------------- validation
\* the checks at the head of enable_plugin / disable_plugin: the name of
\* the exception's cause, or "none" when both checks pass
RECURSIVE PhasesError(_)
PhasesError(phases) ==
  IF phases = << >> THEN "none"
  ELSE IF ~In(Head(phases), PLUGIN_PHASES) THEN "UnknownPhase"
  ELSE PhasesError(Tail(phases))

\* mutant: only the first phase of the list is checked
ValidationErrorFirstPhaseOnly(plugin_name, phases) ==
  IF ~In(plugin_name, SUPPORTED_PLUGINS) THEN "UnknownPlugin"
  ELSE IF phases # << >> /\ ~In(Head(phases), PLUGIN_PHASES) THEN "UnknownPhase"
  ELSE "none"

ValidationError(plugin_name, phases) ==
  IF ~In(plugin_name, SUPPORTED_PLUGINS) THEN "UnknownPlugin"
  ELSE PhasesError(phases)

\* ------------------------------------------------- in-memory mutations
\* mutant: a phase the document has no entry for is skipped
EnablePhaseNoCreate(plugins, phase, plugin_name) ==
  IF phase \notin DOMAIN plugins THEN plugins
  ELSE LET e0 == plugins[phase]
           en == IF In(plugin_name, e0.enabled) THEN e0.enabled
                 ELSE ListAppend(e0.enabled, plugin_name)
           di == IF In(plugin_name, e0.disabled)
                 THEN ListRemove(e0.disabled, plugin_name) ELSE e0.disabled
       IN  DictSet(plugins, phase, PhaseConfig(TRUE, en, TRUE, di))

\* body of the enable loop for one phase
EnablePhase(plugins, phase, plugin_name) ==
  LET e0 == IF phase \in DOMAIN plugins THEN plugins[phase]
            ELSE PhaseConfig(TRUE, << >>, TRUE, << >>)
      en == IF In(plugin_name, e0.enabled) THEN e0.enabled
            ELSE ListAppend(e0.enabled, plugin_name)
      di == IF In(plugin_name, e0.disabled) THEN ListRemove(e0.disabled, plugin_name)
            ELSE e0.disabled
  IN  DictSet(plugins, phase, PhaseConfig(TRUE, en, TRUE, di))

\* body of the disable loop for one phase
DisablePhase(plugins, phase, plugin_name) ==
  LET e0 == IF phase \in DOMAIN plugins THEN plugins[phase]
            ELSE PhaseConfig(TRUE, << >>, TRUE, << >>)
      en == IF In(plugin_name, e0.enabled) THEN ListRemove(e0.enabled, plugin_name)
            ELSE e0.enabled
      di == IF In(plugin_name, e0.disabled) THEN e0.disabled
            ELSE ListAppend(e0.disabled, plugin_name)
  IN  DictSet(plugins, phase, PhaseConfig(TRUE, en, TRUE, di))

RECURSIVE EnableLoop(_, _, _)
EnableLoop(plugins, phases, plugin_name) ==
  IF phases = << >> THEN plugins
  ELSE EnableLoop(EnablePhase(plugins, Head(phases), plugin_name),
                  Tail(phases), plugin_name)

RECURSIVE DisableLoop(_, _, _)
DisableLoop(plugins, phases, plugin_name) ==
  IF phases = << >> THEN plugins
  ELSE DisableLoop(DisablePhase(plugins, Head(phases), plugin_name),
                   Tail(phases), plugin_name)

\* result of a mutation: raised (IndexError on an empty 'profiles') or a document
Raised(doc) == [err |-> TRUE, doc |-> doc]
Returned(doc) == [err |-> FALSE, doc |-> doc]

\* config['profiles'] after the "'profiles' not in config" default
ProfilesOrDefault(cfg, default) ==
  IF cfg.hasProfiles THEN cfg.profiles ELSE << default >>

\* enable_plugin between the load and update_config
EnableMutation(cfg, plugin_name, phases) ==
  LET profiles == ProfilesOrDefault(cfg, Profile(TRUE, EmptyDict, FALSE, << >>))
  IN  IF profiles = << >> THEN Raised(cfg)
      ELSE LET profile == profiles[1]
               plugins == IF profile.hasPlugins THEN profile.plugins ELSE EmptyDict
               p2 == [profile EXCEPT !.hasPlugins = TRUE,
                         !.plugins = EnableLoop(plugins, phases, plugin_name)]
           IN  Returned(Document(TRUE, [profiles EXCEPT ![1] = p2]))

\* disable_plugin between the load and update_config
DisableMutation(cfg, plugin_name, phases) ==
  LET profiles == ProfilesOrDefault(cfg, Profile(TRUE, EmptyDict, FALSE, << >>))
  IN  IF profiles = << >> THEN Raised(cfg)
      ELSE LET profile == profiles[1]
               plugins == IF profile.hasPlugins THEN profile.plugins ELSE EmptyDict
               p2 == [profile EXCEPT !.hasPlugins = TRUE,
                         !.plugins = DisableLoop(plugins, phases, plugin_name)]
           IN  Returned(Document(TRUE, [profiles EXCEPT ![1] = p2]))

\* mutant: the search never finds an entry
FindPluginConfigNever(pcs, plugin_name) == 0

\* index of the first pluginConfig entry named plugin_name, 0 when none
FindPluginConfig(pcs, plugin_name) ==
  IF \E i \in DOMAIN pcs : pcs[i].name = plugin_name
  THEN CHOOSE i \in DOMAIN pcs :
         pcs[i].name = plugin_name /\ \A j \in 1..(i-1) : pcs[j].name # plugin_name
  ELSE 0

\* update_plugin_config between the load and update_config
ConfigMutation(cfg, plugin_name, config_key, config_value) ==
  LET profiles == ProfilesOrDefault(cfg, Profile(FALSE, EmptyDict, TRUE, << >>))
  IN  IF profiles = << >> THEN Raised(cfg)
      ELSE LET profile == profiles[1]
               pcs0 == IF profile.hasPluginConfig THEN profile.pluginConfig ELSE << >>
               k0 == FindPluginConfig(pcs0, plugin_name)
               pcs1 == IF k0 = 0
                       THEN Append(pcs0, PluginArgs(plugin_name, TRUE, EmptyDict))
                       ELSE pcs0
               k == IF k0 = 0 THEN Len(pcs1) ELSE k0
               pcs2 == [pcs1 EXCEPT ![k] =
                          PluginArgs(plugin_name, TRUE,
                                     DictSet(pcs1[k].args, config_key, config_value))]
               p2 == [profile EXCEPT !.hasPluginConfig = TRUE, !.pluginConfig = pcs2]
           IN  Returned(Document(TRUE, [profiles EXCEPT ![1] = p2]))

\* ------------------------------------------------------------- status
\* get_plugin_status on a loaded document
get_plugin_status(cfg) ==
  LET has == cfg.hasProfiles /\ Len(cfg.profiles) > 0
      profile == cfg.profiles[1]
      plugins == IF has /\ profile.hasPlugins THEN profile.plugins ELSE EmptyDict
      pcs == IF has /\ profile.hasPluginConfig THEN profile.pluginConfig ELSE << >>
      names == {pcs[i].name : i \in DOMAIN pcs}
      \* a later entry of the same name overwrites an earlier one
      lastOf(n) == CHOOSE i \in DOMAIN pcs :
                     pcs[i].name = n /\ \A j \in DOMAIN pcs : pcs[j].name = n => j <= i
  IN  [enabled_plugins |->
         [ph \in {q \in DOMAIN plugins : plugins[q].hasEnabled} |-> plugins[ph].enabled],
       disabled_plugins |->
         [ph \in {q \in DOMAIN plugins : plugins[q].hasDisabled} |-> plugins[ph].disabled],
       plugin_configs |-> [n \in names |-> pcs[lastOf(n)].args]]

\* ------------------------------------------------------------- store
\* mutant: the backup is taken of the document about to be written
BackupContentOfNewConfig(stored, new_config) == new_config

\* content of the file backup_config writes: the ConfigMap as stored now
BackupContent(stored, new_config) == stored

\* the ConfigMap after 'kubectl patch --type merge' of data['config.yaml']
\* mutant: the patch is dropped and the ConfigMap keeps what it held
PatchedStoreKeepingStored(stored, new_config) == stored

PatchedStore(stored, new_config) == new_config

\* mutant: a failed restart puts the replaced document back
StoreAfterRestartRollingBack(stored, pre_mutation, restarted) ==
  IF restarted THEN stored ELSE pre_mutation

\* the ConfigMap after restart_scheduler: the rollout commands leave it alone
StoreAfterRestart(stored, pre_mutation, restarted) == stored

\* mutant: a failed load is swallowed and the method goes on
AfterLoadSwallowing(loaded) == "backup"

\* get_current_config raises on failure and nothing in the method catches it:
\* the route's 'except Exception' answers
AfterLoad(loaded) == IF loaded THEN "backup" ELSE "done"

\* mutant: the restart does not depend on update_config's result
AfterUpdateConfigAlwaysRestart(saved) == "restart"

\* 'if self.update_config(config): self.restart_scheduler()'
AfterUpdateConfig(saved) == IF saved THEN "restart" ELSE "return"

\* mutant: a failed backup ends the request
AfterBackupAborting(backed_up) == IF backed_up THEN "save" ELSE "done"

\* backup_config catches every exception: update_config goes on to the patch
AfterBackup(backed_up) == "save"

\* ---------------------------------------------------------- responses
NoOutcome == [http |-> 0, status |-> "none", results |-> << >>]
Response(http, status, results) ==
  [http |-> http, status |-> status, results |-> results]

\* mutant: the handler reports an error when a key's result is an error
ConfigRouteStatusFromResults(rs) ==
  IF \E i \in DOMAIN rs : rs[i] = "error" THEN "error" ELSE "success"

\* top-level status of the PUT config handler once the loop over the keys ended
ConfigRouteStatus(rs) == "success"

\* the dict the manager method returns; restart_scheduler's result is dropped
MethodResult(saved, restarted) == IF saved THEN "success" ELSE "error"

NoCall == [op |-> "none", name |-> "", phases |-> << >>, body |-> << >>, idx |-> 0]
NoDoc == Document(FALSE, << >>)
NoSnapshot == [taken |-> FALSE, doc |-> NoDoc]
NoReplaced == [saved |-> FALSE, doc |-> NoDoc]
Event(ev, ok) == [ev |-> ev, ok |-> ok]

VARIABLES
  store,       \* the document held by the ConfigMap
  pc,          \* per handler thread: idle, load, backup, save, restart, done
  call,        \* per request: operation and arguments
  config,      \* per request: the document loaded and mutated in memory
  trace,       \* per request: collaborator calls made so far, in order
  results,     \* per request: per-key results of the PUT config handler
  outcome,     \* per request: the HTTP response
  snapshot,    \* per request: what this cycle's backup wrote
  replaced,    \* per request: the stored document this cycle's save replaced
  interfered,  \* per request: another request saved between this cycle's backup and save
  lastWriter,  \* the request whose save wrote the stored document, 0 when none
  started,     \* requests started so far
  failures     \* collaborator calls that failed so far

vars == << store, pc, call, config, trace, results, outcome, snapshot,
           replaced, interfered, lastWriter, started, failures >>

\* the results a collaborator call can still have
Answers == IF failures < MaxFailures THEN BOOLEAN ELSE {TRUE}
Count(ok) == failures' = IF ok THEN failures ELSE failures + 1

InitWith(docs) ==
  /\ store \in docs
  /\ pc = [r \in Requests |-> "idle"]
  /\ call = [r \in Requests |-> NoCall]
  /\ config = [r \in Requests |-> NoDoc]
  /\ trace = [r \in Requests |-> << >>]
  /\ results = [r \in Requests |-> << >>]
  /\ outcome = [r \in Requests |-> NoOutcome]
  /\ snapshot = [r \in Requests |-> NoSnapshot]
  /\ replaced = [r \in Requests |-> NoReplaced]
  /\ interfered = [r \in Requests |-> FALSE]
  /\ lastWriter = 0
  /\ started = 0
  /\ failures = 0

Init == InitWith(InitDocs)
RacingInit == InitWith(RacingDocs)

\* a handler thread whose previous response is sent takes the next request
\* and starts with fresh per-request state
Enter(r, c, nextpc, resp, limit) ==
  /\ pc[r] \in {"idle", "done"}
  /\ \A q \in 1..(r - 1) : pc[q] # "idle"   \* slots are interchangeable
  /\ started < limit
  /\ started' = started + 1
  /\ call' = [call EXCEPT ![r] = c]
  /\ pc' = [pc EXCEPT ![r] = nextpc]
  /\ outcome' = [outcome EXCEPT ![r] = resp]
  /\ config' = [config EXCEPT ![r] = NoDoc]
  /\ trace' = [trace EXCEPT ![r] = << >>]
  /\ results' = [results EXCEPT ![r] = << >>]
  /\ snapshot' = [snapshot EXCEPT ![r] = NoSnapshot]
  /\ replaced' = [replaced EXCEPT ![r] = NoReplaced]
  /\ interfered' = [interfered EXCEPT ![r] = FALSE]
  /\ lastWriter' = IF lastWriter = r THEN 0 ELSE lastWriter
  /\ UNCHANGED << store, failures >>

\* POST /api/v1/plugins/<plugin_name>/enable up to the load
EnableRoute(r, names, phaseLists, limit) ==
  \E name \in names, phases \in phaseLists :
    LET c == [op |-> "enable", name |-> name, phases |-> phases,
              body |-> << >>, idx |-> 0]
    IN  IF ValidationError(name, phases) # "none"
        THEN Enter(r, c, "done", Response(400, "error", << >>), limit)
        ELSE Enter(r, c, "load", NoOutcome, limit)

\* POST /api/v1/plugins/<plugin_name>/disable up to the load
DisableRoute(r, names, phaseLists, limit) ==
  \E name \in names, phases \in phaseLists :
    LET c == [op |-> "disable", name |-> name, phases |-> phases,
              body |-> << >>, idx |-> 0]
    IN  IF ValidationError(name, phases) # "none"
        THEN Enter(r, c, "done", Response(400, "error", << >>), limit)
        ELSE Enter(r, c, "load", NoOutcome, limit)

\* PUT /api/v1/plugins/<plugin_name>/config up to the first load
ConfigRoute(r, names, bodies, limit) ==
  \E name \in names, body \in bodies :
    LET c == [op |-> "config", name |-> name, phases |-> << >>,
              body |-> body, idx |-> 1]
    IN  IF body = << >>
        THEN Enter(r, c, "done", Response(400, "error", << >>), limit)
        ELSE Enter(r, c, "load", NoOutcome, limit)

\* the in-memory mutation the request applies to the loaded document
Mutation(c, cfg) ==
  IF c.op = "enable" THEN EnableMutation(cfg, c.name, c.phases)
  ELSE IF c.op = "disable" THEN DisableMutation(cfg, c.name, c.phases)
  ELSE ConfigMutation(cfg, c.name, c.body[c.idx].key, c.body[c.idx].value)

\* get_current_config and the mutation of the loaded document
Load(r) ==
  /\ pc[r] = "load"
  /\ \E ok \in Answers :
       LET m == Mutation(call[r], store)
       IN  /\ Count(ok)
           /\ trace' = [trace EXCEPT ![r] = Append(@, Event("load", ok))]
           /\ IF AfterLoad(ok /\ ~m.err) = "backup"
              THEN /\ config' = [config EXCEPT ![r] = m.doc]
                   /\ pc' = [pc EXCEPT ![r] = "backup"]
                   /\ UNCHANGED outcome
              ELSE \* the route's 'except Exception' answers 500
                   /\ pc' = [pc EXCEPT ![r] = "done"]
                   /\ outcome' = [outcome EXCEPT ![r] = Response(500, "error", << >>)]
                   /\ UNCHANGED config
  /\ UNCHANGED << store, call, results, snapshot, replaced, interfered,
                  lastWriter, started >>

\* update_config: backup_config
Backup(r) ==
  /\ pc[r] = "backup"
  /\ \E ok \in Answers :
       /\ Count(ok)
       /\ trace' = [trace EXCEPT ![r] = Append(@, Event("backup", ok))]
       /\ snapshot' = [snapshot EXCEPT ![r] =
            IF ok THEN [taken |-> TRUE, doc |-> BackupContent(store, config[r])]
            ELSE NoSnapshot]
       /\ pc' = [pc EXCEPT ![r] = AfterBackup(ok)]
  /\ interfered' = [interfered EXCEPT ![r] = FALSE]
  /\ replaced' = [replaced EXCEPT ![r] = NoReplaced]
  /\ UNCHANGED << store, call, config, results, outcome, lastWriter, started >>

\* what the handler does once the manager method returned for this key
Finish(r, res) ==
  IF call[r].op = "config"
  THEN IF call[r].idx < Len(call[r].body)
       THEN /\ call' = [call EXCEPT ![r].idx = @ + 1]
            /\ results' = [results EXCEPT ![r] = Append(@, res)]
            /\ pc' = [pc EXCEPT ![r] = "load"]
            /\ UNCHANGED outcome
       ELSE /\ results' = [results EXCEPT ![r] = Append(@, res)]
            /\ outcome' = [outcome EXCEPT ![r] =
                 Response(200, ConfigRouteStatus(Append(results[r], res)),
                          Append(results[r], res))]
            /\ pc' = [pc EXCEPT ![r] = "done"]
            /\ UNCHANGED call
  ELSE /\ outcome' = [outcome EXCEPT ![r] = Response(200, res, << >>)]
       /\ pc' = [pc EXCEPT ![r] = "done"]
       /\ UNCHANGED << call, results >>

\* update_config: the kubectl patch
Save(r) ==
  /\ pc[r] = "save"
  /\ \E ok \in Answers :
       /\ Count(ok)
       /\ trace' = [trace EXCEPT ![r] = Append(@, Event("save", ok))]
       /\ IF ok
          THEN /\ store' = PatchedStore(store, config[r])
               /\ replaced' = [replaced EXCEPT ![r] = [saved |-> TRUE, doc |-> store]]
               /\ interfered' = [x \in Requests |->
                    IF x # r /\ pc[x] = "save" THEN TRUE ELSE interfered[x]]
               /\ lastWriter' = r
          ELSE UNCHANGED << store, replaced, interfered, lastWriter >>
       /\ IF AfterUpdateConfig(ok) = "restart"
          THEN /\ pc' = [pc EXCEPT ![r] = "restart"]
               /\ UNCHANGED << call, results, outcome >>
          ELSE Finish(r, MethodResult(ok, FALSE))
  /\ UNCHANGED << config, snapshot, started >>

\* restart_scheduler, then the method's return
Restart(r) ==
  /\ pc[r] = "restart"
  /\ \E ok \in Answers :
       /\ Count(ok)
       /\ trace' = [trace EXCEPT ![r] = Append(@, Event("restart", ok))]
       /\ store' = StoreAfterRestart(store, replaced[r].doc, ok)
       /\ Finish(r, MethodResult(replaced[r].saved, ok))
  /\ UNCHANGED << config, snapshot, replaced, interfered, lastWriter, started >>

\* seconds after which the step's kubectl call is given up, 0 when nothing
\* bounds it: subprocess.run is called without timeout= for the load, the
\* backup and the patch; the restart waits with --timeout=300s
CallTimeout(ev) == IF ev = "restart" THEN 300 ELSE 0

\* a kubectl call that never exits: subprocess.run blocks the handler for
\* good when nothing bounds the call
Hang(r) ==
  /\ pc[r] \in {"load", "backup", "save", "restart"}
  /\ CallTimeout(pc[r]) = 0
  /\ failures < MaxFailures
  /\ failures' = failures + 1
  /\ pc' = [pc EXCEPT ![r] = "hung"]
  /\ UNCHANGED << store, call, config, trace, results, outcome, snapshot,
                  replaced, interfered, lastWriter, started >>

\* requests of several clients, served concurrently
Next ==
  \E r \in Requests :
    \/ EnableRoute(r, RacingPlugins, RacingPhaseLists, MaxRacingOps)
    \/ DisableRoute(r, RacingPlugins, RacingPhaseLists, MaxRacingOps)
    \/ ConfigRoute(r, RacingPlugins, RacingBodies, MaxRacingOps)
    \/ Load(r)
    \/ Backup(r)
    \/ Save(r)
    \/ Restart(r)

Spec == RacingInit /\ [][Next]_vars

\* one client that sends its requests one after the other
SeqNext ==
  \/ EnableRoute(1, PluginInputs, PhaseListInputs, MaxOps)
  \/ DisableRoute(1, PluginInputs, PhaseListInputs, MaxOps)
  \/ ConfigRoute(1, PluginInputs, BodyInputs, MaxOps)
  \/ Load(1)
  \/ Backup(1)
  \/ Save(1)
  \/ Restart(1)

SeqSpec == Init /\ [][SeqNext]_vars

\* one client, and collaborator calls that may never answer
HangNext ==
  \/ SeqNext
  \/ Hang(1)

HangSpec == Init /\ [][HangNext]_vars

\* ============================================================ properties
SupportedPlugins == {SUPPORTED_PLUGINS[i] : i \in DOMAIN SUPPORTED_PLUGINS}
SupportedPhases == {PLUGIN_PHASES[i] : i \in DOMAIN PLUGIN_PHASES}

\* profiles[0].plugins of a document, empty when the document has none
PluginsOf(doc) ==
  IF doc.hasProfiles /\ Len(doc.profiles) > 0 /\ doc.profiles[1].hasPlugins
  THEN doc.profiles[1].plugins ELSE EmptyDict

\* the names a phase lists as enabled / as disabled
EnabledIn(doc, phase) ==
  IF phase \in DOMAIN PluginsOf(doc)
  THEN {PluginsOf(doc)[phase].enabled[i] : i \in DOMAIN PluginsOf(doc)[phase].enabled}
  ELSE {}
DisabledIn(doc, phase) ==
  IF phase \in DOMAIN PluginsOf(doc)
  THEN {PluginsOf(doc)[phase].disabled[i] : i \in DOMAIN PluginsOf(doc)[phase].disabled}
  ELSE {}

MutuallyExclusive(doc) ==
  \A phase \in DOMAIN PluginsOf(doc) :
    EnabledIn(doc, phase) \cap DisabledIn(doc, phase) = {}

PhaseSet(phases) == {phases[i] : i \in DOMAIN phases}
LastEvent(r) == trace[r][Len(trace[r])]
\* the request's save has just succeeded: its document is the stored one
JustSaved(r) == pc[r] = "restart"

\* C1: mutual exclusion: in every state reached by enable/disable requests
\* sent one after the other, no phase of profiles[0] in the stored document
\* lists a plugin both as enabled and as disabled.
C1_MutualExclusion == MutuallyExclusive(store)

\* C2: right after the successful save of EnablePlugin(P, L) the stored
\* document has, for every phase of L, P enabled and P not disabled.
C2_EnablePostcondition ==
  \A r \in Requests :
    JustSaved(r) /\ call[r].op = "enable" =>
      \A phase \in PhaseSet(call[r].phases) :
        /\ call[r].name \in EnabledIn(store, phase)
        /\ call[r].name \notin DisabledIn(store, phase)

\* C3: right after the successful save of DisablePlugin(P, L) the stored
\* document has, for every phase of L, P disabled and P not enabled.
C3_DisablePostcondition ==
  \A r \in Requests :
    JustSaved(r) /\ call[r].op = "disable" =>
      \A phase \in PhaseSet(call[r].phases) :
        /\ call[r].name \in DisabledIn(store, phase)
        /\ call[r].name \notin EnabledIn(store, phase)

\* the arguments of an enable/disable call name something outside the catalogs
InvalidToggle(c) ==
  /\ c.op \in {"enable", "disable"}
  /\ \/ c.name \notin SupportedPlugins
     \/ \E i \in DOMAIN c.phases : c.phases[i] \notin SupportedPhases

\* C4: validation before mutation: an enable/disable request whose plugin
\* or any of whose phases is unsupported is answered 400 at once, calls no
\* collaborator (load, backup, save, restart) and its step leaves the stored
\* document as it was.
C4_ValidationBeforeMutation ==
  /\ [](\A r \in Requests :
          InvalidToggle(call[r]) =>
            /\ pc[r] = "done"
            /\ outcome[r] = Response(400, "error", << >>)
            /\ trace[r] = << >>)
  /\ [][\A r \in Requests :
          InvalidToggle(call'[r]) /\ call[r] # call'[r] => store' = store]_vars

C4_Witness ==
  \E r \in Requests :
    /\ pc[r] = "done"
    /\ call[r].op = "enable"
    /\ call[r].name \in SupportedPlugins
    /\ call[r].phases = <<"filter", "notAPhase">>
    /\ outcome[r].http = 400
    /\ started > 1

\* C5: a config update (SetPluginArg) that names a plugin outside
\* SupportedPlugins is refused before any collaborator is called: it makes
\* no load and no save.
C5_ConfigNameValidated ==
  \A r \in Requests :
    call[r].op = "config" /\ call[r].name \notin SupportedPlugins =>
      trace[r] = << >>

\* the result the manager method returned for the request's last cycle
LastResult(r) ==
  IF call[r].op = "config" THEN outcome[r].results[Len(outcome[r].results)]
  ELSE outcome[r].status

\* C6: a request whose save succeeded and whose restart failed is answered
\* with a result that is neither the one of a full success nor an error.
C6_PartialSuccessReported ==
  \A r \in Requests :
    pc[r] = "done" /\ trace[r] # << >> /\ LastEvent(r) = Event("restart", FALSE) =>
      LastResult(r) \notin {"success", "error"}

\* the status shows the mutation the request asked for
Reflects(st, c) ==
  IF c.op = "enable"
  THEN \A phase \in PhaseSet(c.phases) :
         phase \in DOMAIN st.enabled_plugins /\ In(c.name, st.enabled_plugins[phase])
  ELSE IF c.op = "disable"
  THEN \A phase \in PhaseSet(c.phases) :
         phase \in DOMAIN st.disabled_plugins /\ In(c.name, st.disabled_plugins[phase])
  ELSE /\ c.name \in DOMAIN st.plugin_configs
       /\ c.body[c.idx].key \in DOMAIN st.plugin_configs[c.name]
       /\ st.plugin_configs[c.name][c.body[c.idx].key] = c.body[c.idx].value

RestartFailedLast(r) ==
  pc[r] = "done" /\ trace[r] # << >> /\ LastEvent(r) = Event("restart", FALSE)

\* C7: no rollback: a restart step, failed or not, leaves the stored
\* document as it is, and while no other request has saved since, the
\* stored document is the one the request saved and its status shows the
\* request's mutation.
C7_NoRollback ==
  /\ [](\A r \in Requests :
          RestartFailedLast(r) /\ lastWriter = r =>
            /\ store = config[r]
            /\ Reflects(get_plugin_status(store), call[r]))
  /\ [][\A r \in Requests :
          pc[r] = "restart" /\ pc'[r] # "restart" => store' = store]_vars

C7_Witness ==
  \E r \in Requests :
    /\ RestartFailedLast(r)
    /\ lastWriter = r
    /\ call[r].op = "enable"
    /\ replaced[r].doc # store
    /\ \E q \in Requests \ {r} : pc[q] \in {"backup", "save"}

\* number of the load-backup-save-restart cycle that event i of r belongs to
CycleOf(r, i) == Cardinality({j \in 1..i : trace[r][j].ev = "load"})
CycleDone(r, c) ==
  IF call[r].op = "config" THEN Len(results[r]) >= c ELSE pc[r] = "done"
ResultOfCycle(r, c) ==
  IF call[r].op = "config" THEN results[r][c] ELSE outcome[r].status

\* C8: a restart is attempted exactly after a successful save of the same
\* request: every restart event directly follows a successful save, every
\* successful save is followed by the restart, and a failed save ends the
\* cycle with the result "error", no restart and the stored document as it was.
C8_RestartAfterSave ==
  /\ [](\A r \in Requests :
          /\ pc[r] = "restart" => trace[r] # << >> /\ LastEvent(r) = Event("save", TRUE)
          /\ \A i \in DOMAIN trace[r] :
               /\ trace[r][i].ev = "restart" =>
                    i > 1 /\ trace[r][i - 1] = Event("save", TRUE)
               /\ trace[r][i] = Event("save", TRUE) =>
                    IF i = Len(trace[r]) THEN pc[r] = "restart"
                    ELSE trace[r][i + 1].ev = "restart"
               /\ trace[r][i] = Event("save", FALSE) =>
                    /\ CycleDone(r, CycleOf(r, i))
                    /\ ResultOfCycle(r, CycleOf(r, i)) = "error"
                    /\ i < Len(trace[r]) => trace[r][i + 1].ev = "load")
  /\ [][\A r \in Requests :
          pc[r] = "save" /\ pc'[r] \notin {"save", "restart"} => store' = store]_vars

C8_Witness ==
  \E r, q \in Requests :
    /\ pc[r] = "done" /\ LastEvent(r) = Event("save", FALSE)
    /\ outcome[r] = Response(200, "error", << >>)
    /\ pc[q] = "done" /\ LastEvent(q) = Event("restart", TRUE)
    /\ trace[q][Len(trace[q]) - 1] = Event("save", TRUE)

\* C9: every save attempt directly follows the one backup attempt of its
\* cycle, the save is attempted whatever the backup's result, and a cycle
\* whose backup failed and whose save succeeded has the result "success".
C9_BackupBeforeSave ==
  \A r \in Requests :
    \A i \in DOMAIN trace[r] :
      /\ trace[r][i].ev = "save" =>
           i > 2 /\ trace[r][i - 1].ev = "backup" /\ trace[r][i - 2].ev = "load"
      /\ trace[r][i].ev = "backup" =>
           IF i = Len(trace[r]) THEN pc[r] = "save"
           ELSE trace[r][i + 1].ev = "save"
      /\ ( /\ trace[r][i] = Event("backup", FALSE)
           /\ i < Len(trace[r])
           /\ trace[r][i + 1] = Event("save", TRUE)
           /\ CycleDone(r, CycleOf(r, i)) )
         => ResultOfCycle(r, CycleOf(r, i)) = "success"

C9_Witness ==
  \E r \in Requests :
    /\ pc[r] = "done"
    /\ Len(trace[r]) = 4
    /\ trace[r][2] = Event("backup", FALSE)
    /\ trace[r][3] = Event("save", TRUE)
    /\ outcome[r].status = "success"
    /\ store = config[r]

\* C10: for every successful save whose backup succeeded, the snapshot the
\* backup took equals the stored document the save replaced, under every
\* interleaving of the requests' steps.
C10_BackupIsPreMutation ==
  \A r \in Requests :
    replaced[r].saved /\ snapshot[r].taken => snapshot[r].doc = replaced[r].doc

\* C10 (amended): the snapshot equals the replaced document when no other
\* request's save succeeded between this request's backup and its save.
C10_BackupIsPreMutationUnlessInterleaved ==
  \A r \in Requests :
    replaced[r].saved /\ snapshot[r].taken /\ ~interfered[r] =>
      snapshot[r].doc = replaced[r].doc

C10_Witness ==
  \E r \in Requests :
    /\ replaced[r].saved /\ snapshot[r].taken /\ ~interfered[r]
    /\ snapshot[r].doc = replaced[r].doc
    /\ store # replaced[r].doc
    /\ \E q \in Requests \ {r} : pc[q] \in {"backup", "save"}

C12_EnableIdempotent ==
  \A r \in Requests :
    JustSaved(r) /\ call[r].op = "enable" =>
      EnableMutation(store, call[r].name, call[r].phases) = Returned(store)

\* the args get_plugin_status shows for a plugin name, empty when it shows none
ArgsOf(doc, n) ==
  IF n \in DOMAIN get_plugin_status(doc).plugin_configs
  THEN get_plugin_status(doc).plugin_configs[n]
  ELSE EmptyDict

C14_LocateOrCreate ==
  \A r \in Requests :
    JustSaved(r) /\ call[r].op = "enable" =>
      /\ \A phase \in PhaseSet(call[r].phases) \ DOMAIN PluginsOf(replaced[r].doc) :
           /\ phase \in DOMAIN PluginsOf(store)
           /\ PluginsOf(store)[phase] =
                PhaseConfig(TRUE, << call[r].name >>, TRUE, << >>)
      /\ DOMAIN PluginsOf(store) =
           DOMAIN PluginsOf(replaced[r].doc) \cup PhaseSet(call[r].phases)
      /\ store.hasProfiles /\ store.profiles[1].hasPlugins

\* an enable of two phases saved over a document without a plugins section
C14_Witness ==
  \E r \in Requests :
    /\ JustSaved(r) /\ call[r].op = "enable"
    /\ DOMAIN PluginsOf(replaced[r].doc) = {}
    /\ Cardinality(PhaseSet(call[r].phases)) = 2
    /\ DOMAIN PluginsOf(store) = PhaseSet(call[r].phases)

\* profiles[0].pluginConfig of a document and whether the document has it
HasPluginConfig(doc) ==
  doc.hasProfiles /\ Len(doc.profiles) > 0 /\ doc.profiles[1].hasPluginConfig
PluginConfigOf(doc) ==
  IF HasPluginConfig(doc) THEN doc.profiles[1].pluginConfig ELSE << >>
HasPlugins(doc) ==
  doc.hasProfiles /\ Len(doc.profiles) > 0 /\ doc.profiles[1].hasPlugins
\* a list of names without one name, a pluginConfig without one plugin's entries
NamesBut(names, n) == SelectSeq(names, LAMBDA x : x # n)
EntriesBut(pcs, n) == SelectSeq(pcs, LAMBDA e : e.name # n)

\* C15: frame of a mutation: right after the successful save of an
\* enable/disable of P in L, every phase lists the plugins other than P as
\* the replaced document did, every phase outside L has the PhaseConfig it
\* had (or still none) and the pluginConfig section is the same; right after
\* the successful save of SetPluginArg(N, K, V) the plugins section is the
\* same and so are the pluginConfig entries of every plugin other than N.
C15_Frame ==
  \A r \in Requests :
    JustSaved(r) =>
      LET old == replaced[r].doc
          P == call[r].name
          L == PhaseSet(call[r].phases)
      IN  IF call[r].op \in {"enable", "disable"}
          THEN /\ \A phase \in DOMAIN PluginsOf(old) :
                    /\ phase \in DOMAIN PluginsOf(store)
                    /\ NamesBut(PluginsOf(store)[phase].enabled, P) =
                         NamesBut(PluginsOf(old)[phase].enabled, P)
                    /\ NamesBut(PluginsOf(store)[phase].disabled, P) =
                         NamesBut(PluginsOf(old)[phase].disabled, P)
               /\ \A phase \in DOMAIN PluginsOf(store) \ DOMAIN PluginsOf(old) :
                    /\ NamesBut(PluginsOf(store)[phase].enabled, P) = << >>
                    /\ NamesBut(PluginsOf(store)[phase].disabled, P) = << >>
               /\ \A phase \in SupportedPhases \ L :
                    /\ phase \in DOMAIN PluginsOf(store) <=> phase \in DOMAIN PluginsOf(old)
                    /\ phase \in DOMAIN PluginsOf(old) =>
                         PluginsOf(store)[phase] = PluginsOf(old)[phase]
               /\ HasPluginConfig(store) = HasPluginConfig(old)
               /\ PluginConfigOf(store) = PluginConfigOf(old)
          ELSE /\ HasPlugins(store) = HasPlugins(old)
               /\ PluginsOf(store) = PluginsOf(old)
               /\ EntriesBut(PluginConfigOf(store), P) = EntriesBut(PluginConfigOf(old), P)

\* an enable or disable changed a phase that lists another plugin, in a
\* document that has a pluginConfig section
C15_Witness ==
  \E r \in Requests :
    /\ JustSaved(r) /\ call[r].op \in {"enable", "disable"}
    /\ store # replaced[r].doc
    /\ PluginConfigOf(store) # << >>
    /\ \E phase \in PhaseSet(call[r].phases) :
         /\ phase \in DOMAIN PluginsOf(replaced[r].doc)
         /\ NamesBut(PluginsOf(replaced[r].doc)[phase].enabled, call[r].name) # << >>
         /\ PluginsOf(store)[phase] # PluginsOf(replaced[r].doc)[phase]

\* no two entries of profiles[0].pluginConfig have the same name
UniqueNames(doc) ==
  \A i \in DOMAIN PluginConfigOf(doc), j \in DOMAIN PluginConfigOf(doc) :
    PluginConfigOf(doc)[i].name = PluginConfigOf(doc)[j].name => i = j

NamesIn(doc) == {PluginConfigOf(doc)[i].name : i \in DOMAIN PluginConfigOf(doc)}

\* C16: pluginConfig names stay unique: no step of an enable, disable or
\* SetPluginArg request takes the stored document from one entry per name at
\* most to two entries of one name, and right after the successful save of a
\* SetPluginArg for a name the replaced document had an entry for, the
\* pluginConfig has as many entries, with the same names, as it had.
C16_UniqueNames ==
  /\ [][UniqueNames(store) => UniqueNames(store')]_vars
  /\ [](\A r \in Requests :
          JustSaved(r) /\ call[r].op = "config"
            /\ UniqueNames(replaced[r].doc)
            /\ call[r].name \in NamesIn(replaced[r].doc) =>
              /\ Len(PluginConfigOf(store)) = Len(PluginConfigOf(replaced[r].doc))
              /\ \A i \in DOMAIN PluginConfigOf(store) :
                   PluginConfigOf(store)[i].name = PluginConfigOf(replaced[r].doc)[i].name)

\* a SetPluginArg changed the entry of a name the document already had,
\* next to the entry of another name
C16_Witness ==
  \E r \in Requests :
    /\ JustSaved(r) /\ call[r].op = "config"
    /\ call[r].name \in NamesIn(replaced[r].doc)
    /\ store # replaced[r].doc
    /\ Cardinality(NamesIn(store)) = 2
    /\ Len(PluginConfigOf(store)) = 2
    /\ UniqueNames(store)

\* C17: every request gets an outcome: no request is ever left blocked in a
\* collaborator call with nothing to end the wait, so each started request
\* comes to its response.
C17_NoRequestHangs == \A r \in Requests : pc[r] # "hung"

\* C18: a load failure writes nothing: the step of a failed load leaves the
\* stored document as it is, the failed load is the last collaborator call
\* of its request (no backup, save or restart follows it) and the request
\* is answered 500/error.
C18_LoadFailureWritesNothing ==
  /\ [](\A r \in Requests : \A i \in DOMAIN trace[r] :
          trace[r][i] = Event("load", FALSE) =>
            /\ i = Len(trace[r])
            /\ pc[r] = "done"
            /\ outcome[r] = Response(500, "error", << >>))
  /\ [][\A r \in Requests :
          pc[r] = "load" /\ trace'[r] = Append(trace[r], Event("load", FALSE)) =>
            store' = store]_vars

\* a request whose only collaborator call is the failed load
C18_Witness ==
  \E r \in Requests :
    /\ pc[r] = "done"
    /\ trace[r] = << Event("load", FALSE) >>
    /\ outcome[r].http = 500
    /\ ~snapshot[r].taken /\ ~replaced[r].saved

\* C19: mutual exclusion under interleaving: whatever the interleaving of
\* the load, backup, save and restart steps of concurrent enable/disable
\* requests, started on a stored document that lists no plugin as both
\* enabled and disabled in a phase, no phase of the stored document lists a
\* plugin as both.
C19_MutualExclusionInterleaved ==
  \A phase \in SupportedPhases :
    \A plugin \in EnabledIn(store, phase) : plugin \notin DisabledIn(store, phase)

\* the save event of the c-th cycle of the request, as a set (empty when the
\* cycle has not come to its save)
SavesOfCycle(r, c) ==
  {trace[r][i] : i \in {j \in DOMAIN trace[r] :
                          trace[r][j].ev = "save" /\ CycleOf(r, j) = c}}

\* C20: the PUT config handler is not atomic: it runs one load-backup-save
\* cycle per key of the body, in order; a failed save leaves the stored
\* document with what earlier keys saved and the handler goes on with the
\* next key; once every key has had its cycle the handler answers
\* 200/success whatever the per-key results, and the result of a key is
\* "error" exactly when that key's save failed.
C20_NotAtomic ==
  /\ [](\A r \in Requests :
          call[r].op = "config" /\ pc[r] = "done" /\ outcome[r].http = 200 =>
            /\ outcome[r] = Response(200, "success", results[r])
            /\ Len(results[r]) = Len(call[r].body)
            /\ \A c \in DOMAIN results[r] :
                 /\ Cardinality(SavesOfCycle(r, c)) = 1
                 /\ results[r][c] = "error" <=>
                      SavesOfCycle(r, c) = {Event("save", FALSE)})
  /\ [][\A r \in Requests :
          /\ call[r].op = "config" /\ pc[r] = "save"
          /\ trace'[r] = Append(trace[r], Event("save", FALSE))
          => /\ store' = store
             /\ results'[r] = Append(results[r], "error")
             /\ IF call[r].idx < Len(call[r].body)
                THEN pc'[r] = "load" /\ call'[r].idx = call[r].idx + 1
                ELSE pc'[r] = "done"]_vars

\* a body of two keys: the first key is saved, the save of the second fails,
\* the answer is 200/success and the stored document has the first key only
C20_Witness ==
  \E r \in Requests :
    /\ call[r].op = "config" /\ pc[r] = "done"
    /\ Len(call[r].body) = 2
    /\ results[r] = << "success", "error" >>
    /\ outcome[r].status = "success"
    /\ call[r].body[1].key \in DOMAIN ArgsOf(store, call[r].name)
    /\ ArgsOf(store, call[r].name)[call[r].body[1].key] = call[r].body[1].value
    /\ call[r].body[2].key \notin DOMAIN ArgsOf(store, call[r].name)

\* a body of two keys: the save of the first key fails and the second key is
\* still saved
C20_WitnessGoesOn ==
  \E r \in Requests :
    /\ call[r].op = "config" /\ pc[r] = "done"
    /\ results[r] = << "error", "success" >>
    /\ outcome[r].status = "success"
    /\ call[r].body[2].key \in DOMAIN ArgsOf(store, call[r].name)

====
